---------------------------- MODULE Spec2Model ----------------------------
(***************************************************************************)
(* Escrow / order-settlement workflow of api.supamart.                     *)
(*                                                                         *)
(* The model follows src/routes/orders.js (POST /api/orders and            *)
(* PUT /api/orders/:orderId/confirm-delivery), src/routes/sellers.js       *)
(* (POST /api/sellers/:id/payout) and src/utils/currency.js.               *)
(*                                                                         *)
(* Every `await` on a persistence call is one step of a request: the       *)
(* step performs the database read or write and then runs the synchronous  *)
(* code up to the next `await`.  Requests interleave at these steps.       *)
(*                                                                         *)
(* Money is counted in hundredths of a currency unit (integers); the       *)
(* rounding of convertPrice to two decimals is rounding to an integer.     *)
(* A mongoose document save writes only the paths whose value differs      *)
(* from the value that was loaded.                                         *)
(***************************************************************************)
EXTENDS Integers, Sequences, FiniteSets, Bags, TLC

(* ------------------------------ bounds --------------------------------- *)

\* most items in one POST /api/orders body
MaxItems == 2
\* largest quantity requested for one item
MaxQty == 2
\* most requests started in one behaviour
MaxCalls == 3
\* most successful rate refreshes in one behaviour
MaxRefresh == 1

(* ------------------------------ the data ------------------------------- *)

\* request slots: handlers that may be in flight at the same time
Req == {"r1", "r2"}

\* authenticated users (req.user.id)
Users == {"u1", "u2"}

\* wallet buckets of the seller schema that the model tracks
Currencies == {"USD", "NGN"}

Sellers == {"s1", "s2"}

\* the products collection: p0 is an id that no product has
Products == {"p1", "p2"}
ProductIds == Products \cup {"p0"}

\* product.sellerId, product.price.amount, product.price.currency
ProductDoc == [p1 |-> [sellerId |-> "s1", amount |-> 3, currency |-> "USD"],
               p2 |-> [sellerId |-> "s2", amount |-> 5, currency |-> "NGN"]]

\* product.stock when the behaviour starts
InitStock == [p1 |-> 2, p2 |-> 1]

\* the rate tables the provider may answer with; 0 stands for a missing entry
NoRates == [c \in Currencies |-> 0]
RateTables == {[USD |-> 2, NGN |-> 3]}

\* sellerSchema.wallets.<currency> defaults
EmptyBucket == [balance |-> 0, pendingBalance |-> 0, totalEarnings |-> 0]

\* amounts a seller may ask to be paid out (req.body.amount is not validated)
PayoutAmounts == {-3, 3}

\* the amounts asked for while requests interleave, and one request at a time
ConcurrentPayouts == {a \in PayoutAmounts : a > 0}
SequentialPayouts == PayoutAmounts

VARIABLES
  stock,     \* products collection: stock of each product
  rates,     \* exchangeRates of utils/currency.js
  orders,    \* orders collection, in creation order; the index is the _id
  ledger,    \* transactions collection: a bag of transaction records
  wallets,   \* sellers collection: wallets of each seller
  req,       \* the local variables and position of each request slot
  calls,     \* how many requests and rate refreshes have been started
  pre,       \* the collections as they were when the running call started
  conv       \* the last direct call of convertPrice and the last refresh outcome

vars == <<stock, rates, orders, ledger, wallets, req, calls, pre, conv>>

(* ------------------------------ helpers -------------------------------- *)

RECURSIVE SumSeq(_)
SumSeq(s) == IF s = <<>> THEN 0 ELSE Head(s) + SumSeq(Tail(s))

\* a variant of RoundDiv that rounds every fraction up
CeilDiv(a, b) == (a + b - 1) \div b

\* a variant of RoundDiv that drops the fraction
TruncDiv(a, b) == a \div b

\* Math.round(x) for x = a / b with a >= 0, b > 0: halves round up
RoundDiv(a, b) == (2 * a + b) \div (2 * b)

RateOf(table, c) == IF c \in DOMAIN table THEN table[c] ELSE 0

\* a variant of ConvertWith that answers 0 when a rate is missing
ConvertWithFailClosed(table, amount, from, to) ==
  IF RateOf(table, from) = 0 \/ RateOf(table, to) = 0
    THEN 0
    ELSE RoundDiv(amount * RateOf(table, to), RateOf(table, from))

\* convertPrice of utils/currency.js against a given table
ConvertWith(table, amount, from, to) ==
  IF RateOf(table, from) = 0 \/ RateOf(table, to) = 0
    THEN amount
    ELSE RoundDiv(amount * RateOf(table, to), RateOf(table, from))

convertPrice(amount, from, to) == ConvertWith(rates, amount, from, to)

\* a request slot with nothing in it
IdleReq == [kind |-> "none", pc |-> "idle", user |-> "u1", items |-> <<>>,
            payCur |-> "USD", idx |-> 0, orderItems |-> <<>>, total |-> 0,
            oldStock |-> 0, newStock |-> 0, orderId |-> 0, sellerId |-> "s1",
            seller |-> EmptyBucket, amount |-> 0, resp |-> 0]

\* res.status(code).json(...): the handler returns, its locals are dropped
Respond(q, code) == [IdleReq EXCEPT !.kind = q.kind, !.pc = "done", !.resp = code]

Free(r) == req[r].pc \in {"idle", "done"}

Snapshot == [stock |-> stock, wallets |-> wallets, orders |-> orders,
             ledger |-> ledger]

\* no direct call of convertPrice yet, no refresh finished yet
NoConv == [called |-> FALSE, amount |-> 0, from |-> "USD", to |-> "USD",
           table |-> NoRates, out |-> 0, after |-> "none", refresh |-> "none",
           hasBack |-> FALSE, back |-> 0, backTable |-> NoRates]


(* --------------------- documents and wallet arithmetic ----------------- *)

\* payment.currency enum of the order schema
OrderCurrencyEnum == {"USD", "GBP", "EUR", "NGN"}

\* the request bodies of POST /api/orders: items, paymentCurrency, req.user;
\* the route does not validate item.quantity, so 0 and -1 are bodies too
Quantities == {-1, 0} \cup 1..MaxQty
ItemInputs == [productId : ProductIds, quantity : Quantities]
ItemLists == UNION {[1..n -> ItemInputs] : n \in 1..MaxItems}
Bodies == [items : ItemLists, payCur : Currencies, user : Users]

\* the bodies submitted one request at a time: u1 buys product p1 or names
\* the missing product p0, paying in either currency
SequentialBodies ==
  {b \in Bodies : /\ b.user = "u1"
                  /\ \A i \in 1..Len(b.items) :
                        b.items[i].productId \in {"p1", "p0"}}

\* the bodies submitted while requests interleave: u1 buys product p1 in
\* positive quantities and pays in NGN
ConcurrentBodies ==
  {b \in Bodies : /\ b.user = "u1" /\ b.payCur = "NGN"
                  /\ \A i \in 1..Len(b.items) :
                        /\ b.items[i].productId = "p1"
                        /\ b.items[i].quantity >= 1}

\* a variant of DecrementStock that takes one unit whatever the quantity
DecrementStockByOne(loaded, quantity) == loaded - 1

\* product.stock -= item.quantity
DecrementStock(loaded, quantity) == loaded - quantity

\* subtotal = convertedPrice * item.quantity
Subtotal(convertedPrice, quantity) == convertedPrice * quantity

\* a variant of AddToTotal that assigns instead of accumulating
AddToTotalLast(total, subtotal) == subtotal

\* total += subtotal
AddToTotal(total, subtotal) == total + subtotal

\* the document handed to Order.create, with the schema defaults filled in
NewOrder(q) ==
  [buyer |-> q.user, items |-> q.orderItems, payCur |-> q.payCur,
   amount |-> q.total, payStatus |-> "processing", escrow |-> "held",
   status |-> "pending", deliveryConfirmed |-> FALSE,
   deliveryConfirmedBy |-> "none"]

\* mongoose validation run by Order.create
ValidOrder(doc) ==
  /\ doc.payCur \in OrderCurrencyEnum
  /\ \A i \in 1..Len(doc.items) : doc.items[i].quantity >= 1

\* a variant of ConfirmUpdate that flips the escrow status
ConfirmUpdateToggle(doc) ==
  [doc EXCEPT !.deliveryConfirmed = TRUE, !.deliveryConfirmedBy = "buyer",
              !.status = "completed",
              !.escrow = IF @ = "held" THEN "released" ELSE "held"]

\* a variant of ConfirmUpdate that sets the escrow status only
ConfirmUpdateEscrowOnly(doc) == [doc EXCEPT !.escrow = "released"]

\* the fields confirm-delivery sets on the loaded order before order.save()
ConfirmUpdate(doc) ==
  [doc EXCEPT !.deliveryConfirmed = TRUE, !.deliveryConfirmedBy = "buyer",
              !.status = "completed", !.escrow = "released"]

\* a variant of HoldTx that records the hold as completed
HoldTxCompleted(o, item, cur) ==
  [orderId |-> o, sellerId |-> item.sellerId, type |-> "escrow_hold",
   amount |-> item.subtotal, currency |-> cur, status |-> "completed"]

HoldTx(o, item, cur) ==
  [orderId |-> o, sellerId |-> item.sellerId, type |-> "escrow_hold",
   amount |-> item.subtotal, currency |-> cur, status |-> "pending"]

\* a variant of ReleaseTx that prices the item again at the current rates
ReleaseTxRepriced(o, item, cur) ==
  [orderId |-> o, sellerId |-> item.sellerId, type |-> "escrow_release",
   amount |-> item.quantity
                * convertPrice(ProductDoc[item.productId].amount,
                               ProductDoc[item.productId].currency, cur),
   currency |-> cur, status |-> "completed"]

ReleaseTx(o, item, cur) ==
  [orderId |-> o, sellerId |-> item.sellerId, type |-> "escrow_release",
   amount |-> item.subtotal, currency |-> cur, status |-> "completed"]

\* a variant of Hold that adds the amount twice
HoldTwice(b, x) == [b EXCEPT !.pendingBalance = @ + x + x]

\* seller.wallets[c].pendingBalance += item.subtotal
Hold(b, x) == [b EXCEPT !.pendingBalance = @ + x]

\* a variant of Release that leaves pendingBalance as it is
ReleaseKeepPending(b, x) == [b EXCEPT !.balance = @ + x, !.totalEarnings = @ + x]

\* pendingBalance -= subtotal; balance += subtotal; totalEarnings += subtotal
Release(b, x) ==
  [b EXCEPT !.pendingBalance = @ - x, !.balance = @ + x,
            !.totalEarnings = @ + x]

\* a variant of Withdraw that takes the amount from pendingBalance
WithdrawFromPending(b, a) == [b EXCEPT !.pendingBalance = @ - a]

\* seller.wallets[currency].balance -= amount
Withdraw(b, a) == [b EXCEPT !.balance = @ - a]

\* seller.save(): each path of the bucket whose value was changed since the
\* document was loaded is written, the others are left as the database has them
SaveBucket(w, s, c, loaded, new) ==
  [w EXCEPT ![s][c] =
     [f \in DOMAIN @ |-> IF new[f] # loaded[f] THEN new[f] ELSE @[f]]]

(* ------------------------------ Init ----------------------------------- *)

Init ==
  /\ stock = InitStock
  /\ rates = NoRates
  /\ orders = <<>>
  /\ ledger = EmptyBag
  /\ wallets = [s \in Sellers |-> [c \in Currencies |-> EmptyBucket]]
  /\ req = [r \in Req |-> IdleReq]
  /\ calls = [requests |-> 0, refresh |-> 0]
  /\ pre = Snapshot
  /\ conv = NoConv

(* ------------------------- POST /api/orders ---------------------------- *)

\* a request arrives; `protect` has set req.user
StartCreate(r, bodies) ==
  /\ Free(r)
  /\ calls.requests < MaxCalls
  /\ \E b \in bodies :
       req' = [req EXCEPT ![r] =
                 [IdleReq EXCEPT !.kind = "create", !.pc = "co_find",
                                 !.user = b.user, !.items = b.items,
                                 !.payCur = b.payCur, !.idx = 1]]
  /\ calls' = [calls EXCEPT !.requests = @ + 1]
  /\ pre' = Snapshot
  /\ UNCHANGED <<stock, rates, orders, ledger, wallets, conv>>

\* Product.findById resolves; the checks, the pricing and the local
\* product.stock -= quantity run up to `await product.save()`
CO_FindProduct(r) ==
  LET q == req[r]
      it == q.items[q.idx]
      p == it.productId
  IN
  /\ q.pc = "co_find"
  /\ IF p \notin Products
       THEN req' = [req EXCEPT ![r] = Respond(q, 404)]
       ELSE IF stock[p] < it.quantity
         THEN req' = [req EXCEPT ![r] = Respond(q, 400)]
         ELSE
           LET convertedPrice ==
                 convertPrice(ProductDoc[p].amount, ProductDoc[p].currency,
                              q.payCur)
               subtotal == Subtotal(convertedPrice, it.quantity)
               item == [productId |-> p, sellerId |-> ProductDoc[p].sellerId,
                        price |-> convertedPrice, quantity |-> it.quantity,
                        subtotal |-> subtotal]
           IN req' = [req EXCEPT ![r].orderItems = Append(@, item),
                                 ![r].total = AddToTotal(@, subtotal),
                                 ![r].oldStock = stock[p],
                                 ![r].newStock =
                                     DecrementStock(stock[p], it.quantity),
                                 ![r].pc = "co_psave"]
  /\ UNCHANGED <<stock, rates, orders, ledger, wallets, calls, pre, conv>>

\* a variant of SaveStock that applies the difference to the stored stock
SaveStockDelta(st, p, loaded, new) == [st EXCEPT ![p] = @ - (loaded - new)]

\* product.save(): the stock path is written when its value was changed
\* since the document was loaded
SaveStock(st, p, loaded, new) ==
  IF new # loaded THEN [st EXCEPT ![p] = new] ELSE st

\* a variant of CO_SaveProduct that re-checks and decrements the stored stock
\* in one conditional update
CO_SaveProductAtomic(r) ==
  LET q == req[r]
      p == q.items[q.idx].productId
      n == q.items[q.idx].quantity
  IN
  /\ q.pc = "co_psave"
  /\ IF stock[p] < n
       THEN /\ req' = [req EXCEPT ![r] = Respond(q, 400)]
            /\ UNCHANGED stock
       ELSE /\ stock' = [stock EXCEPT ![p] = @ - n]
            /\ req' = [req EXCEPT
                 ![r].idx = IF q.idx < Len(q.items) THEN q.idx + 1 ELSE 0,
                 ![r].oldStock = 0, ![r].newStock = 0,
                 ![r].pc = IF q.idx < Len(q.items) THEN "co_find"
                                                   ELSE "co_create"]
  /\ UNCHANGED <<rates, orders, ledger, wallets, calls, pre, conv>>

\* product.save() lands: the stock computed from the loaded document is
\* written (productSchema.stock has min: 0); then the next item, or Order.create
CO_SaveProduct(r) ==
  LET q == req[r]
      p == q.items[q.idx].productId
  IN
  /\ q.pc = "co_psave"
  /\ IF q.newStock < 0
       THEN /\ req' = [req EXCEPT ![r] = Respond(q, 500)]
            /\ UNCHANGED stock
       ELSE /\ stock' = SaveStock(stock, p, q.oldStock, q.newStock)
            /\ req' = [req EXCEPT
                 ![r].idx = IF q.idx < Len(q.items) THEN q.idx + 1 ELSE 0,
                 ![r].oldStock = 0, ![r].newStock = 0,
                 ![r].pc = IF q.idx < Len(q.items) THEN "co_find"
                                                   ELSE "co_create"]
  /\ UNCHANGED <<rates, orders, ledger, wallets, calls, pre, conv>>

\* Order.create validates and inserts the order
CO_CreateOrder(r) ==
  LET q == req[r]
      doc == NewOrder(q)
  IN
  /\ q.pc = "co_create"
  /\ IF ValidOrder(doc)
       THEN /\ orders' = Append(orders, doc)
            /\ req' = [req EXCEPT ![r].orderId = Len(orders) + 1,
                                  ![r].idx = 1, ![r].pc = "co_tx"]
       ELSE /\ req' = [req EXCEPT ![r] = Respond(q, 500)]
            /\ UNCHANGED orders
  /\ UNCHANGED <<stock, rates, ledger, wallets, calls, pre, conv>>

\* Transaction.create of the escrow_hold record of the current item
CO_HoldTx(r) ==
  LET q == req[r] IN
  /\ q.pc = "co_tx"
  /\ ledger' = ledger (+)
                  SetToBag({HoldTx(q.orderId, q.orderItems[q.idx], q.payCur)})
  /\ req' = [req EXCEPT ![r].pc = "co_sfind"]
  /\ UNCHANGED <<stock, rates, orders, wallets, calls, pre, conv>>

\* Seller.findById resolves; a missing seller or wallet bucket throws
CO_FindSeller(r) ==
  LET q == req[r]
      s == q.orderItems[q.idx].sellerId
  IN
  /\ q.pc = "co_sfind"
  /\ IF s \in Sellers /\ q.payCur \in Currencies
       THEN req' = [req EXCEPT ![r].sellerId = s,
                               ![r].seller = wallets[s][q.payCur],
                               ![r].pc = "co_ssave"]
       ELSE req' = [req EXCEPT ![r] = Respond(q, 500)]
  /\ UNCHANGED <<stock, rates, orders, ledger, wallets, calls, pre, conv>>

\* seller.save() lands; then the next item, or the 201 response
CO_SaveSeller(r) ==
  LET q == req[r]
      x == q.orderItems[q.idx].subtotal
  IN
  /\ q.pc = "co_ssave"
  /\ wallets' = SaveBucket(wallets, q.sellerId, q.payCur, q.seller,
                           Hold(q.seller, x))
  /\ req' = [req EXCEPT ![r] =
               IF q.idx < Len(q.orderItems)
                 THEN [q EXCEPT !.idx = q.idx + 1, !.seller = EmptyBucket,
                                !.pc = "co_tx"]
                 ELSE Respond(q, 201)]
  /\ UNCHANGED <<stock, rates, orders, ledger, calls, pre, conv>>

(* ------------- PUT /api/orders/:orderId/confirm-delivery --------------- *)

\* the order ids a client may name: those of the orders and one beyond
OrderIds == 1..(Len(orders) + 1)

StartConfirm(r) ==
  /\ Free(r)
  /\ calls.requests < MaxCalls
  /\ \E u \in Users, o \in OrderIds :
       req' = [req EXCEPT ![r] =
                 [IdleReq EXCEPT !.kind = "confirm", !.pc = "cd_find",
                                 !.user = u, !.orderId = o]]
  /\ calls' = [calls EXCEPT !.requests = @ + 1]
  /\ pre' = Snapshot
  /\ UNCHANGED <<stock, rates, orders, ledger, wallets, conv>>

\* a variant of IsBuyer that lets every authenticated user through
IsBuyerAnyone(doc, user) == TRUE

\* the buyer check of confirm-delivery
IsBuyer(doc, user) == doc.buyer = user

\* Order.findById resolves; 404, 403, or the fields are set on the local
\* document up to `await order.save()`
CD_FindOrder(r) ==
  LET q == req[r] IN
  /\ q.pc = "cd_find"
  /\ req' = [req EXCEPT ![r] =
       IF q.orderId \notin 1..Len(orders) THEN Respond(q, 404)
       ELSE IF ~IsBuyer(orders[q.orderId], q.user) THEN Respond(q, 403)
       ELSE [q EXCEPT !.pc = "cd_save"]]
  /\ UNCHANGED <<stock, rates, orders, ledger, wallets, calls, pre, conv>>

\* a variant of CD_SaveOrder that enters the loop without saving the order
CD_SaveOrderDeferred(r) ==
  LET q == req[r] IN
  /\ q.pc = "cd_save"
  /\ req' = [req EXCEPT ![r] =
       IF Len(orders[q.orderId].items) = 0 THEN Respond(q, 200)
       ELSE [q EXCEPT !.idx = 1, !.payCur = orders[q.orderId].payCur,
                      !.pc = "cd_tx"]]
  /\ UNCHANGED <<stock, rates, orders, ledger, wallets, calls, pre, conv>>

\* order.save() lands; the loop over order.items starts
CD_SaveOrder(r) ==
  LET q == req[r] IN
  /\ q.pc = "cd_save"
  /\ orders' = [orders EXCEPT ![q.orderId] = ConfirmUpdate(@)]
  /\ req' = [req EXCEPT ![r] =
       IF Len(orders[q.orderId].items) = 0 THEN Respond(q, 200)
       ELSE [q EXCEPT !.idx = 1, !.payCur = orders[q.orderId].payCur,
                      !.pc = "cd_tx"]]
  /\ UNCHANGED <<stock, rates, ledger, wallets, calls, pre, conv>>

\* a variant of CD_ReleaseTx that also marks the item's escrow_hold record
\* completed
CD_ReleaseTxSettlingHold(r) ==
  LET q == req[r]
      item == orders[q.orderId].items[q.idx]
      hold == HoldTx(q.orderId, item, q.payCur)
      settled == [hold EXCEPT !.status = "completed"]
  IN
  /\ q.pc = "cd_tx"
  /\ ledger' = IF BagIn(hold, ledger)
                 THEN ((ledger (-) SetToBag({hold})) (+) SetToBag({settled}))
                        (+) SetToBag({ReleaseTx(q.orderId, item, q.payCur)})
                 ELSE ledger (+) SetToBag({ReleaseTx(q.orderId, item, q.payCur)})
  /\ req' = [req EXCEPT ![r].pc = "cd_sfind"]
  /\ UNCHANGED <<stock, rates, orders, wallets, calls, pre, conv>>

\* Transaction.create of the escrow_release record of the current item
CD_ReleaseTx(r) ==
  LET q == req[r] IN
  /\ q.pc = "cd_tx"
  /\ ledger' = ledger (+)
       SetToBag({ReleaseTx(q.orderId, orders[q.orderId].items[q.idx], q.payCur)})
  /\ req' = [req EXCEPT ![r].pc = "cd_sfind"]
  /\ UNCHANGED <<stock, rates, orders, wallets, calls, pre, conv>>

\* Seller.findById resolves; a missing seller or wallet bucket throws
CD_FindSeller(r) ==
  LET q == req[r]
      s == orders[q.orderId].items[q.idx].sellerId
  IN
  /\ q.pc = "cd_sfind"
  /\ IF s \in Sellers /\ q.payCur \in Currencies
       THEN req' = [req EXCEPT ![r].sellerId = s,
                               ![r].seller = wallets[s][q.payCur],
                               ![r].pc = "cd_ssave"]
       ELSE req' = [req EXCEPT ![r] = Respond(q, 500)]
  /\ UNCHANGED <<stock, rates, orders, ledger, wallets, calls, pre, conv>>

\* seller.save() lands; then the next item, or the 200 response
CD_SaveSeller(r) ==
  LET q == req[r]
      x == orders[q.orderId].items[q.idx].subtotal
  IN
  /\ q.pc = "cd_ssave"
  /\ wallets' = SaveBucket(wallets, q.sellerId, q.payCur, q.seller,
                           Release(q.seller, x))
  /\ req' = [req EXCEPT ![r] =
               IF q.idx < Len(orders[q.orderId].items)
                 THEN [q EXCEPT !.idx = q.idx + 1, !.seller = EmptyBucket,
                                !.pc = "cd_tx"]
                 ELSE Respond(q, 200)]
  /\ UNCHANGED <<stock, rates, orders, ledger, calls, pre, conv>>

\* an awaited call of the release loop rejects (Transaction.create,
\* Seller.findById or seller.save()), or Seller.findById resolves to null and
\* the wallet access throws: the catch block answers 500, nothing is undone
CD_LoopFails(r) ==
  LET q == req[r] IN
  /\ q.pc \in {"cd_tx", "cd_sfind", "cd_ssave"}
  /\ req' = [req EXCEPT ![r] = Respond(q, 500)]
  /\ UNCHANGED <<stock, rates, orders, ledger, wallets, calls, pre, conv>>

(* -------------------- POST /api/sellers/:id/payout --------------------- *)

\* the seller asks for its own payout (req.user.id = req.params.id, so the
\* 403 branch of the route is not taken)
StartPayout(r, amounts) ==
  /\ Free(r)
  /\ calls.requests < MaxCalls
  /\ \E s \in Sellers, c \in Currencies, a \in amounts :
       req' = [req EXCEPT ![r] =
                 [IdleReq EXCEPT !.kind = "payout", !.pc = "po_find",
                                 !.sellerId = s, !.payCur = c, !.amount = a]]
  /\ calls' = [calls EXCEPT !.requests = @ + 1]
  /\ pre' = Snapshot
  /\ UNCHANGED <<stock, rates, orders, ledger, wallets, conv>>

\* Seller.findById resolves; the balance check; the local balance -= amount
PO_FindSeller(r) ==
  LET q == req[r]
      b == wallets[q.sellerId][q.payCur]
  IN
  /\ q.pc = "po_find"
  /\ req' = [req EXCEPT ![r] =
       IF b.balance < q.amount THEN Respond(q, 400)
       ELSE [q EXCEPT !.seller = b, !.pc = "po_save"]]
  /\ UNCHANGED <<stock, rates, orders, ledger, wallets, calls, pre, conv>>

\* seller.save() lands; the 200 response
PO_SaveSeller(r) ==
  LET q == req[r] IN
  /\ q.pc = "po_save"
  /\ wallets' = SaveBucket(wallets, q.sellerId, q.payCur, q.seller,
                           Withdraw(q.seller, q.amount))
  /\ req' = [req EXCEPT ![r] = Respond(q, 200)]
  /\ UNCHANGED <<stock, rates, orders, ledger, calls, pre, conv>>

(* ------------------------------- rates ------------------------------- *)

\* updateExchangeRates: the provider answers and the table is replaced
RefreshRates ==
  /\ calls.refresh < MaxRefresh
  /\ \E t \in RateTables : rates' = t
  /\ calls' = [calls EXCEPT !.refresh = @ + 1]
  /\ UNCHANGED <<stock, orders, ledger, wallets, req, pre, conv>>

\* the tables the provider may answer with when utils/currency.js is
\* exercised on its own; the last one has no NGN entry
ProviderTables == {[USD |-> 1, NGN |-> 1500], [USD |-> 2, NGN |-> 3],
                   [USD |-> 1]}

\* the arguments of direct convertPrice calls; no table has a GBP entry
ConvCurrencies == {"USD", "NGN", "GBP"}
ConvAmounts == {0, 3, 10000}

\* a variant of updateExchangeRatesOk that writes one entry of the new table
\* at a time
updateExchangeRatesOkPartial ==
  /\ \E t \in ProviderTables : \E c \in DOMAIN t :
       rates' = [k \in DOMAIN rates \cup {c} |->
                   IF k = c THEN t[c] ELSE rates[k]]
  /\ conv' = [conv EXCEPT !.refresh = "ok"]
  /\ UNCHANGED <<stock, orders, ledger, wallets, req, calls, pre>>

\* updateExchangeRates, try branch: axios.get resolves, the table is replaced
updateExchangeRatesOk ==
  /\ \E t \in ProviderTables : rates' = t
  /\ conv' = [conv EXCEPT !.refresh = "ok"]
  /\ UNCHANGED <<stock, orders, ledger, wallets, req, calls, pre>>

\* a variant of updateExchangeRatesFail that empties the cache
updateExchangeRatesFailClearing ==
  /\ rates' = NoRates
  /\ conv' = [conv EXCEPT !.refresh = "failed"]
  /\ UNCHANGED <<stock, orders, ledger, wallets, req, calls, pre>>

\* updateExchangeRates, catch branch: axios.get rejects, the error is logged
\* and the cached table is returned
updateExchangeRatesFail ==
  /\ conv' = [conv EXCEPT !.refresh = "failed"]
  /\ UNCHANGED <<stock, rates, orders, ledger, wallets, req, calls, pre>>

\* a caller of the module calls convertPrice(amount, from, to)
Convert ==
  /\ \E a \in ConvAmounts, f \in ConvCurrencies, t \in ConvCurrencies :
       conv' = [conv EXCEPT !.called = TRUE, !.amount = a, !.from = f,
                            !.to = t, !.table = rates,
                            !.out = convertPrice(a, f, t),
                            !.after = conv.refresh,
                            !.hasBack = FALSE, !.back = 0,
                            !.backTable = NoRates]
  /\ UNCHANGED <<stock, rates, orders, ledger, wallets, req, calls, pre>>

\* the caller converts the result back: convertPrice(out, to, from)
ConvertBack ==
  /\ conv.called /\ ~conv.hasBack
  /\ conv' = [conv EXCEPT !.hasBack = TRUE, !.backTable = rates,
                          !.back = convertPrice(conv.out, conv.to, conv.from)]
  /\ UNCHANGED <<stock, rates, orders, ledger, wallets, req, calls, pre>>

(* --------------------------- specifications ---------------------------- *)

\* a second handler is in flight only while the first slot is taken
SlotOrder(r) == r = "r2" => ~Free("r1")

\* requests interleave at every persistence call
Next ==
  \/ \E r \in Req : SlotOrder(r) /\ StartCreate(r, ConcurrentBodies)
  \/ \E r \in Req : SlotOrder(r) /\ StartConfirm(r)
  \/ \E r \in Req : SlotOrder(r) /\ StartPayout(r, ConcurrentPayouts)
  \/ \E r \in Req : CO_FindProduct(r)
  \/ \E r \in Req : CO_SaveProduct(r)
  \/ \E r \in Req : CO_CreateOrder(r)
  \/ \E r \in Req : CO_HoldTx(r)
  \/ \E r \in Req : CO_FindSeller(r)
  \/ \E r \in Req : CO_SaveSeller(r)
  \/ \E r \in Req : CD_FindOrder(r)
  \/ \E r \in Req : CD_SaveOrder(r)
  \/ \E r \in Req : CD_ReleaseTx(r)
  \/ \E r \in Req : CD_FindSeller(r)
  \/ \E r \in Req : CD_SaveSeller(r)
  \/ \E r \in Req : PO_FindSeller(r)
  \/ \E r \in Req : PO_SaveSeller(r)
  \/ RefreshRates

Spec == Init /\ [][Next]_vars

\* one request at a time, each run to its response before the next starts;
\* the rate refresh timer may fire between any two steps
SeqReq == {"r1"}

SeqNext ==
  \/ \E r \in SeqReq : StartCreate(r, SequentialBodies)
  \/ \E r \in SeqReq : StartConfirm(r)
  \/ \E r \in SeqReq : StartPayout(r, SequentialPayouts)
  \/ \E r \in SeqReq : CO_FindProduct(r)
  \/ \E r \in SeqReq : CO_SaveProduct(r)
  \/ \E r \in SeqReq : CO_CreateOrder(r)
  \/ \E r \in SeqReq : CO_HoldTx(r)
  \/ \E r \in SeqReq : CO_FindSeller(r)
  \/ \E r \in SeqReq : CO_SaveSeller(r)
  \/ \E r \in SeqReq : CD_FindOrder(r)
  \/ \E r \in SeqReq : CD_SaveOrder(r)
  \/ \E r \in SeqReq : CD_ReleaseTx(r)
  \/ \E r \in SeqReq : CD_FindSeller(r)
  \/ \E r \in SeqReq : CD_SaveSeller(r)
  \/ \E r \in SeqReq : PO_FindSeller(r)
  \/ \E r \in SeqReq : PO_SaveSeller(r)
  \/ RefreshRates

SeqSpec == Init /\ [][SeqNext]_vars

\* one request at a time, where a persistence call of the confirm-delivery
\* release loop may fail
FailNext ==
  \/ \E r \in SeqReq : StartCreate(r, SequentialBodies)
  \/ \E r \in SeqReq : StartConfirm(r)
  \/ \E r \in SeqReq : StartPayout(r, SequentialPayouts)
  \/ \E r \in SeqReq : CO_FindProduct(r)
  \/ \E r \in SeqReq : CO_SaveProduct(r)
  \/ \E r \in SeqReq : CO_CreateOrder(r)
  \/ \E r \in SeqReq : CO_HoldTx(r)
  \/ \E r \in SeqReq : CO_FindSeller(r)
  \/ \E r \in SeqReq : CO_SaveSeller(r)
  \/ \E r \in SeqReq : CD_FindOrder(r)
  \/ \E r \in SeqReq : CD_SaveOrder(r)
  \/ \E r \in SeqReq : CD_ReleaseTx(r)
  \/ \E r \in SeqReq : CD_FindSeller(r)
  \/ \E r \in SeqReq : CD_SaveSeller(r)
  \/ \E r \in SeqReq : CD_LoopFails(r)
  \/ \E r \in SeqReq : PO_FindSeller(r)
  \/ \E r \in SeqReq : PO_SaveSeller(r)
  \/ RefreshRates

FailSpec == Init /\ [][FailNext]_vars

\* utils/currency.js on its own: refreshes that succeed or fail, and direct
\* calls of convertPrice, in any order
RateNext ==
  \/ updateExchangeRatesOk
  \/ updateExchangeRatesFail
  \/ Convert
  \/ ConvertBack

RateSpec == Init /\ [][RateNext]_vars

(* ------------------------------ properties ----------------------------- *)

OrderSet == 1..Len(orders)

\* the slot's handler has answered
Done(r, kind, codes) ==
  /\ req[r].pc = "done" /\ req[r].kind = kind /\ req[r].resp \in codes

\* the subtotals of seller s in one order
SellerSubtotal(doc, s) ==
  SumSeq([i \in 1..Len(doc.items) |->
            IF doc.items[i].sellerId = s THEN doc.items[i].subtotal ELSE 0])

\* the quantity of product p in one order
ProductQuantity(doc, p) ==
  SumSeq([i \in 1..Len(doc.items) |->
            IF doc.items[i].productId = p THEN doc.items[i].quantity ELSE 0])

\* the sum of all item subtotals of one order
OrderSubtotals(doc) ==
  SumSeq([i \in 1..Len(doc.items) |-> doc.items[i].subtotal])

\* the quantity of product p in all persisted orders
SoldQuantity(p) ==
  SumSeq([o \in 1..Len(orders) |-> ProductQuantity(orders[o], p)])

InReleaseLoop(r) ==
  req[r].kind = "confirm" /\ req[r].pc \in {"cd_tx", "cd_sfind", "cd_ssave"}

\* C1: a confirm-delivery call made for an order that was already released
\* when the call started is a no-op on the wallets: no step of it changes
\* any seller's balance, pendingBalance or totalEarnings.
C1_SecondConfirmNoOp ==
  [][\A r \in Req :
       (/\ req[r].kind = "confirm" /\ req[r].pc # "done"
        /\ req[r].orderId \in 1..Len(pre.orders)
        /\ pre.orders[req[r].orderId].escrow = "released")
       => wallets' = wallets]_vars

\* C2: in every reachable state every wallet bucket has balance >= 0 and
\* pendingBalance >= 0.
C2_WalletNonNegative ==
  \A s \in Sellers, c \in Currencies :
    wallets[s][c].balance >= 0 /\ wallets[s][c].pendingBalance >= 0

\* C3: of the confirm-delivery calls running at the same time for one order,
\* at most one is in the loop that releases the funds.
C3_OneReleaser ==
  \A r1 \in Req, r2 \in Req :
    (r1 # r2 /\ InReleaseLoop(r1) /\ InReleaseLoop(r2))
    => req[r1].orderId # req[r2].orderId

\* C4: for every persisted order the sum of the item subtotals equals
\* payment.amount, within one hundredth.
C4_SubtotalsSumToAmount ==
  \A o \in OrderSet :
    LET d == OrderSubtotals(orders[o]) - orders[o].amount
    IN -1 <= d /\ d <= 1

\* C4 witness: an order of two items that were priced under different rate
\* tables (the same product, two converted prices)
C4_Witness ==
  \E o \in OrderSet :
    /\ Len(orders[o].items) = 2
    /\ orders[o].items[1].productId = orders[o].items[2].productId
    /\ orders[o].items[1].price # orders[o].items[2].price

\* C5: once escrow.status of an order is released, no step changes it.
C5_ReleasedStaysReleased ==
  [][\A o \in OrderSet :
       orders[o].escrow = "released"
       => (o \in 1..Len(orders') /\ orders'[o].escrow = "released")]_vars

\* C5 witness: a later confirm-delivery call has saved an order whose
\* release was already recorded in the ledger
C5_Witness ==
  \E r \in Req :
    /\ req[r].kind = "confirm" /\ req[r].pc = "cd_tx" /\ req[r].idx = 1
    /\ orders[req[r].orderId].escrow = "released"
    /\ \E t \in BagToSet(ledger) :
         t.type = "escrow_release" /\ t.orderId = req[r].orderId

\* C6: when a POST /api/orders call has answered 400, 404 or 500, every
\* product's stock is what it was when the call started.
C6_FailedCreateRestoresStock ==
  \A r \in Req : Done(r, "create", {400, 404, 500}) => stock = pre.stock

\* C7: when a POST /api/orders call stops at an item whose quantity exceeds
\* the product's stock (the stock the check reads and the stock the product
\* had when the call started), it answers 400, that product's stock is what
\* it was when the call started, and the orders, the ledger and the wallets
\* are what they were when the call started.
C7_InsufficientStockChangesNothing ==
  [][\A r \in Req :
       (/\ req[r].kind = "create" /\ req[r].pc = "co_find"
        /\ req'[r].pc = "done"
        /\ req[r].items[req[r].idx].productId \in Products
        /\ stock[req[r].items[req[r].idx].productId]
             < req[r].items[req[r].idx].quantity
        /\ pre.stock[req[r].items[req[r].idx].productId]
             < req[r].items[req[r].idx].quantity)
       => (/\ req'[r].resp = 400
           /\ stock'[req[r].items[req[r].idx].productId]
                = pre.stock[req[r].items[req[r].idx].productId]
           /\ orders' = pre.orders /\ ledger' = pre.ledger
           /\ wallets' = pre.wallets)]_vars

\* C8: the stock a POST /api/orders call persists for an item is the stock
\* it read at its check minus the quantity, whatever other calls have
\* written to the product since the check: check and decrement are not one
\* serialized update.
C8_CheckThenWriteNotSerialized ==
  [][\A r \in Req :
       (/\ req[r].pc = "co_psave"
        /\ req'[r].pc \in {"co_find", "co_create"})
       => stock'[req[r].items[req[r].idx].productId]
            = req[r].oldStock - req[r].items[req[r].idx].quantity]_vars

\* C8 witness: the orders persisted for a product hold more units than the
\* product had in stock
C8_Witness == \E p \in Products : SoldQuantity(p) > InitStock[p]

\* C9: a confirm-delivery call by a user who is not the order's buyer
\* answers 403 when the order is loaded, and that step changes no order, no
\* wallet, no stock and no ledger record.
C9_NonBuyerForbidden ==
  [][\A r \in Req :
       (/\ req[r].kind = "confirm" /\ req[r].pc = "cd_find"
        /\ req'[r] # req[r]
        /\ req[r].orderId \in OrderSet
        /\ orders[req[r].orderId].buyer # req[r].user)
       => (/\ req'[r].pc = "done" /\ req'[r].resp = 403
           /\ UNCHANGED <<orders, wallets, ledger, stock>>)]_vars

\* C9 witness: a confirm-delivery call has answered 403 and an order exists
C9_Witness ==
  \E r \in Req : Done(r, "confirm", {403}) /\ Len(orders) > 0

\* the converted prices convertPrice can return for product p paid in c
ConvertedPrices(p, c) ==
  {ConvertWith(t, ProductDoc[p].amount, ProductDoc[p].currency, c) :
     t \in RateTables \cup {NoRates}}

\* C10: when a POST /api/orders call has answered 201, one order was added,
\* with escrow held and payment processing; each product's stock is its
\* stock when the call started minus the quantities ordered of it; each
\* item's subtotal is a converted price of its product times its quantity;
\* and each seller's pendingBalance in the payment currency is its value
\* when the call started plus the subtotals of the seller's items, the
\* other buckets' pendingBalance being unchanged.
C10_SuccessfulCreate ==
  \A r \in Req :
    Done(r, "create", {201}) =>
      /\ Len(orders) = Len(pre.orders) + 1
      /\ LET doc == orders[Len(orders)] IN
         /\ doc.escrow = "held" /\ doc.payStatus = "processing"
         /\ \A p \in Products :
              stock[p] = pre.stock[p] - ProductQuantity(doc, p)
         /\ \A i \in 1..Len(doc.items) :
              /\ doc.items[i].quantity <= pre.stock[doc.items[i].productId]
              /\ doc.items[i].price
                   \in ConvertedPrices(doc.items[i].productId, doc.payCur)
              /\ doc.items[i].subtotal
                   = doc.items[i].price * doc.items[i].quantity
         /\ \A s \in Sellers, c \in Currencies :
              wallets[s][c].pendingBalance
                = pre.wallets[s][c].pendingBalance
                  + (IF c = doc.payCur THEN SellerSubtotal(doc, s) ELSE 0)

\* C10 witness: a call has answered 201 for two units of p1 paid in NGN at
\* the converted price
C10_Witness ==
  \E r \in Req :
    /\ Done(r, "create", {201})
    /\ orders[Len(orders)].payCur = "NGN"
    /\ orders[Len(orders)].items[1].quantity = 2
    /\ orders[Len(orders)].items[1].price = 5

\* the ledger records of one type
LedgerOfType(type) == {t \in BagToSet(ledger) : t.type = type}

\* C11: when a confirm-delivery call of the buyer, made for an order whose
\* escrow was held when the call started, answers, it answers 200; the order
\* has status completed, escrow released, deliveryConfirmed true and
\* deliveryConfirmedBy buyer; and each seller's bucket in the order's payment
\* currency has, against its value when the call started, pendingBalance
\* lower by the subtotals of the seller's items and balance and
\* totalEarnings higher by them, every other bucket being unchanged.
C11_ConfirmReleases ==
  [][\A r \in Req :
       (/\ req[r].kind = "confirm" /\ req[r].pc = "cd_ssave"
        /\ req'[r].pc = "done"
        /\ req[r].orderId \in 1..Len(pre.orders)
        /\ pre.orders[req[r].orderId].escrow = "held")
       => LET o == req[r].orderId
              doc == orders'[o]
          IN /\ req'[r].resp = 200
             /\ doc.status = "completed" /\ doc.escrow = "released"
             /\ doc.deliveryConfirmed = TRUE
             /\ doc.deliveryConfirmedBy = "buyer"
             /\ \A s \in Sellers, c \in Currencies :
                  LET x == IF c = doc.payCur THEN SellerSubtotal(doc, s) ELSE 0
                      was == pre.wallets[s][c]
                  IN wallets'[s][c] =
                       [balance |-> was.balance + x,
                        pendingBalance |-> was.pendingBalance - x,
                        totalEarnings |-> was.totalEarnings + x]]_vars

\* C11 witness: the first confirm-delivery of a two-item order has answered
\* 200 and the seller's balance is the sum of the two subtotals
C11_Witness ==
  \E r \in Req :
    /\ Done(r, "confirm", {200})
    /\ Len(orders) = 1 /\ Len(orders[1].items) = 2
    /\ orders[1].escrow = "released" /\ orders[1].amount > 0
    /\ BagCardinality(ledger) = 4
    /\ wallets["s1"][orders[1].payCur].balance = orders[1].amount
    /\ wallets["s1"][orders[1].payCur].pendingBalance = 0

\* C12: for every bucket b and amount x that POST /api/orders is about to
\* hold, the hold followed by the release of x leaves pendingBalance at b's
\* value and raises balance and totalEarnings by exactly x.
C12_HoldThenRelease ==
  \A r \in Req :
    req[r].pc = "co_ssave" =>
      LET b == req[r].seller
          x == req[r].orderItems[req[r].idx].subtotal
          after == Release(Hold(b, x), x)
      IN /\ after.pendingBalance = b.pendingBalance
         /\ after.balance = b.balance + x
         /\ after.totalEarnings = b.totalEarnings + x

\* C12 witness: a hold of a positive amount is about to be saved on a bucket
\* that already holds a pending amount and a balance
C12_Witness ==
  \E r \in Req :
    /\ req[r].pc = "co_ssave"
    /\ req[r].orderItems[req[r].idx].subtotal > 0
    /\ req[r].seller.pendingBalance > 0
    /\ req[r].seller.balance > 0

\* C13: no step lowers totalEarnings of any seller in any currency.
C13_TotalEarningsMonotone ==
  [][\A s \in Sellers, c \in Currencies :
       wallets'[s][c].totalEarnings >= wallets[s][c].totalEarnings]_vars

\* C14: when a payout call for amount a in currency c answers, then if the
\* seller's balance in c at the start of the call was below a it answers 400
\* and the wallets are what they were, and otherwise it answers 200 and the
\* wallets are what they were except that this balance is lower by exactly a.
C14_Payout ==
  [][\A r \in Req :
       (/\ req[r].kind = "payout" /\ req[r].pc \in {"po_find", "po_save"}
        /\ req'[r].pc = "done")
       => LET s == req[r].sellerId
              c == req[r].payCur
              a == req[r].amount
          IN IF pre.wallets[s][c].balance < a
               THEN req'[r].resp = 400 /\ wallets' = pre.wallets
               ELSE /\ req'[r].resp = 200
                    /\ wallets' = [pre.wallets EXCEPT ![s][c] =
                         [balance |-> @.balance - a,
                          pendingBalance |-> @.pendingBalance,
                          totalEarnings |-> @.totalEarnings]]]_vars

\* C14 witness: a payout of a positive amount has answered 200 on a bucket
\* whose balance, all of it earned, was more than the amount
C14_Witness ==
  \E r \in Req, s \in Sellers, c \in Currencies :
    /\ Done(r, "payout", {200})
    /\ pre.wallets[s][c].balance > 3
    /\ pre.wallets[s][c].totalEarnings = pre.wallets[s][c].balance
    /\ wallets[s][c].balance = pre.wallets[s][c].balance - 3

\* C15: a payout call with a negative amount is refused with 400 and changes
\* no wallet, and no hold or release is saved with a negative subtotal.
C15_NegativeAmountRejected ==
  [][/\ \A r \in Req :
          (/\ req[r].kind = "payout" /\ req[r].amount < 0
           /\ req[r].pc \in {"po_find", "po_save"})
          => (req'[r].pc = "done" /\ req'[r].resp = 400 /\ wallets' = wallets)
     /\ \A r \in Req :
          /\ req[r].pc = "co_ssave"
               => req[r].orderItems[req[r].idx].subtotal >= 0
          /\ req[r].pc = "cd_ssave"
               => orders[req[r].orderId].items[req[r].idx].subtotal >= 0]_vars

\* C16: in every reachable state the stock of every product is >= 0.
C16_StockNonNegative == \A p \in Products : stock[p] >= 0

\* C16 witness: two orders that each took the whole initial stock of p1 are
\* persisted, and the stock of p1 is 0
C16_Witness ==
  /\ Len(orders) = 2
  /\ ProductQuantity(orders[1], "p1") = InitStock["p1"]
  /\ ProductQuantity(orders[2], "p1") = InitStock["p1"]
  /\ stock["p1"] = 0

\* C17: no step removes or alters a transaction record: every record of the
\* ledger is in the ledger after the step, as many times and with the same
\* field values.
C17_LedgerAppendOnly ==
  [][\A t \in BagToSet(ledger) :
       CopiesIn(t, ledger') >= CopiesIn(t, ledger)]_vars

\* C17 witness: an order is released, its escrow_release record is in the
\* ledger and its escrow_hold record is still pending
C17_Witness ==
  \E h \in LedgerOfType("escrow_hold"), l \in LedgerOfType("escrow_release") :
    /\ h.orderId = l.orderId /\ h.status = "pending"
    /\ orders[h.orderId].escrow = "released"
    /\ \A r \in Req : Free(r)

\* C18: a convertPrice call made with both currencies in the rate table
\* returns amount / rate[from] * rate[to] rounded to the nearest hundredth
\* (halves up); with the table {USD: 1, NGN: 1500}, 100.00 USD gives
\* 150000.00 NGN.
C18_ConvertRounds ==
  (/\ conv.called
   /\ RateOf(conv.table, conv.from) # 0 /\ RateOf(conv.table, conv.to) # 0)
  => LET rf == RateOf(conv.table, conv.from)
         rt == RateOf(conv.table, conv.to)
     IN /\ 2 * conv.out * rf <= 2 * conv.amount * rt + rf
        /\ 2 * conv.out * rf > 2 * conv.amount * rt - rf
        /\ (/\ conv.table = [USD |-> 1, NGN |-> 1500]
            /\ conv.amount = 10000 /\ conv.from = "USD" /\ conv.to = "NGN")
           => conv.out = 15000000

\* C18 witness: 100.00 USD was converted to NGN under {USD: 1, NGN: 1500}
C18_Witness ==
  /\ conv.called /\ conv.table = [USD |-> 1, NGN |-> 1500]
  /\ conv.amount = 10000 /\ conv.from = "USD" /\ conv.to = "NGN"
  /\ conv.out = 15000000

\* C19: a convertPrice call made while fromCurrency or toCurrency has no
\* rate in the table returns the amount unchanged; this covers the calls
\* made before any refresh has completed.
C19_MissingRatePassthrough ==
  (/\ conv.called
   /\ RateOf(conv.table, conv.from) = 0 \/ RateOf(conv.table, conv.to) = 0)
  => conv.out = conv.amount

\* C19 witness: a positive amount was converted between two different
\* currencies before the first refresh finished
C19_Witness ==
  /\ conv.called /\ conv.after = "none" /\ conv.table = NoRates
  /\ conv.amount > 0 /\ conv.from = "USD" /\ conv.to = "NGN"
  /\ conv.out = conv.amount

\* C20: a step after which the last refresh is a failed one leaves the
\* cached table as it was, and a convertPrice call made after a failed
\* refresh is computed from that table.
C20_FailedRefreshKeepsTable ==
  [][conv'.refresh = "failed"
       => /\ rates' = rates
          /\ (conv.refresh = "failed" /\ conv' # conv /\ ~conv'.hasBack)
               => conv'.out = ConvertWith(rates, conv'.amount, conv'.from,
                                          conv'.to)]_vars

\* C20 witness: after a refresh that succeeded a refresh failed, and a call
\* made after the failure converted with the table of the first refresh
C20_Witness ==
  /\ conv.refresh = "failed" /\ conv.called /\ conv.after = "failed"
  /\ rates = [USD |-> 2, NGN |-> 3] /\ conv.table = rates
  /\ conv.amount = 3 /\ conv.from = "USD" /\ conv.to = "NGN" /\ conv.out = 5

\* the tables a convertPrice call may find cached
CachedTables == ProviderTables \cup {NoRates}

\* C21: the two rates a convertPrice call reads come from one table, the
\* empty cache or a table some refresh installed: never from a mix of two
\* tables.
C21_NoTornTable ==
  conv.called =>
    \E t \in CachedTables :
      /\ RateOf(conv.table, conv.from) = RateOf(t, conv.from)
      /\ RateOf(conv.table, conv.to) = RateOf(t, conv.to)
      /\ conv.out = ConvertWith(t, conv.amount, conv.from, conv.to)

\* C21 witness: a call converted under one table and a refresh has since
\* installed another one
C21_Witness ==
  /\ conv.called /\ conv.table = [USD |-> 2, NGN |-> 3]
  /\ rates = [USD |-> 1, NGN |-> 1500]
  /\ conv.amount = 3 /\ conv.from = "USD" /\ conv.to = "NGN" /\ conv.out = 5

\* the distance between the result of the round trip and the amount
RoundTripError ==
  IF conv.back >= conv.amount THEN conv.back - conv.amount
                              ELSE conv.amount - conv.back

\* a round trip A -> B -> A was made under one table that has both rates
StableRoundTrip ==
  /\ conv.called /\ conv.hasBack /\ conv.backTable = conv.table
  /\ RateOf(conv.table, conv.from) # 0 /\ RateOf(conv.table, conv.to) # 0

TxCount(l, o, type) ==
  LET S == {t \in BagToSet(l) : t.orderId = o /\ t.type = type}
  IN BagCardinality([t \in S |-> CopiesIn(t, l)])

\* C23: the writes of one call happen in a fixed order.  POST /api/orders:
\* when the order is inserted every item's stock decrement is stored and no
\* transaction or wallet of the call is written yet; a hold record or a
\* pendingBalance increment is written only after the order is inserted.
\* confirm-delivery: a release record is appended, and a wallet is credited,
\* only after the order is stored as released, and an item's wallet is
\* credited only after that item's release record was appended.  Stock,
\* orders and ledger are written at no other position of a handler.
C23_WriteOrder ==
  [][/\ \A r \in Req :
          LET q == req[r]
              o == q.orderId
          IN
          /\ (q.pc = "co_create" /\ orders' # orders)
               => /\ \A p \in Products :
                       stock[p] = pre.stock[p]
                                    - ProductQuantity(orders'[Len(orders')], p)
                  /\ ledger = pre.ledger /\ wallets = pre.wallets
          /\ (q.pc \in {"co_tx", "co_ssave"}
                /\ (ledger' # ledger \/ wallets' # wallets))
               => /\ Len(orders) = Len(pre.orders) + 1 /\ o = Len(orders)
                  /\ stock' = stock
          /\ (q.pc \in {"cd_tx", "cd_ssave"}
                /\ (ledger' # ledger \/ wallets' # wallets))
               => /\ orders[o].escrow = "released"
                  /\ orders[o].status = "completed"
          /\ (q.pc = "cd_ssave" /\ wallets' # wallets)
               => TxCount(ledger, o, "escrow_release")
                    = TxCount(pre.ledger, o, "escrow_release") + q.idx
     /\ stock' # stock => \E r \in Req : req[r].pc = "co_psave"
     /\ orders' # orders => \E r \in Req : req[r].pc \in {"co_create", "cd_save"}
     /\ ledger' # ledger => \E r \in Req : req[r].pc \in {"co_tx", "cd_tx"}]_vars

\* C23 witness: a confirm-delivery call is about to credit the seller of the
\* second item of a released order
C23_Witness ==
  \E r \in Req :
    /\ req[r].kind = "confirm" /\ req[r].pc = "cd_ssave" /\ req[r].idx = 2
    /\ orders[req[r].orderId].escrow = "released"
    /\ TxCount(ledger, req[r].orderId, "escrow_release") = 2
    /\ wallets # pre.wallets

\* C24: when a POST /api/orders call has answered 201, the ledger is the
\* ledger at the start of the call plus, for each item of the new order, one
\* escrow_hold record with status pending, the item's subtotal, the payment
\* currency and the item's seller; and each seller's pendingBalance in the
\* payment currency has grown by the sum of the subtotals of its items.
C24_OneHoldPerItem ==
  \A r \in Req :
    Done(r, "create", {201}) =>
      LET o == Len(orders)
          doc == orders[o]
          Expected(i) ==
            [orderId |-> o, sellerId |-> doc.items[i].sellerId,
             type |-> "escrow_hold", amount |-> doc.items[i].subtotal,
             currency |-> doc.payCur, status |-> "pending"]
      IN /\ BagCardinality(ledger)
              = BagCardinality(pre.ledger) + Len(doc.items)
         /\ \A i \in 1..Len(doc.items) :
              CopiesIn(Expected(i), ledger)
                = CopiesIn(Expected(i), pre.ledger)
                  + Cardinality({j \in 1..Len(doc.items) :
                                   Expected(j) = Expected(i)})
         /\ \A s \in Sellers :
              wallets[s][doc.payCur].pendingBalance
                = pre.wallets[s][doc.payCur].pendingBalance
                  + SellerSubtotal(doc, s)

\* C24 witness: a call has answered 201 for two items of one seller with
\* different subtotals, the second order of the behaviour
C24_Witness ==
  \E r \in Req :
    /\ Done(r, "create", {201})
    /\ Len(orders) = 2 /\ Len(orders[2].items) = 2
    /\ orders[2].items[1].sellerId = orders[2].items[2].sellerId
    /\ orders[2].items[1].subtotal # orders[2].items[2].subtotal
    /\ TxCount(ledger, 2, "escrow_hold") = 2

C29_ReleaseEqualsHold ==
  [][/\ \A o \in OrderSet :
          /\ orders'[o].items = orders[o].items
          /\ orders'[o].amount = orders[o].amount
          /\ orders'[o].payCur = orders[o].payCur
     /\ \A r \in Req :
          /\ (req[r].pc = "cd_tx" /\ ledger' # ledger)
               => \E h \in LedgerOfType("escrow_hold") :
                    LET l == [h EXCEPT !.type = "escrow_release",
                                       !.status = "completed"]
                    IN /\ h.orderId = req[r].orderId
                       /\ CopiesIn(l, ledger') = CopiesIn(l, ledger) + 1
          /\ (req[r].pc = "cd_ssave" /\ req'[r] # req[r])
               => \E h \in LedgerOfType("escrow_hold") :
                    /\ h.orderId = req[r].orderId
                    /\ h.sellerId = req[r].sellerId
                    /\ wallets'[h.sellerId][h.currency].balance
                         = wallets[h.sellerId][h.currency].balance + h.amount
                    /\ \A s \in Sellers, c \in Currencies :
                         <<s, c>> # <<h.sellerId, h.currency>>
                           => wallets'[s][c] = wallets[s][c]]_vars

\* C29 witness: an item priced 3 NGN before the rates were refreshed was
\* released at 3 NGN after the refresh, when its converted price would be 5
C29_Witness ==
  \E l \in LedgerOfType("escrow_release") :
    /\ l.amount = 3 /\ l.currency = "NGN" /\ l.sellerId = "s1"
    /\ rates # NoRates
    /\ convertPrice(ProductDoc["p1"].amount, ProductDoc["p1"].currency, "NGN")
         = 5
    /\ wallets["s1"]["NGN"].balance = 3
    /\ orders[l.orderId].amount = 3
    /\ \A r \in Req : Free(r)

\* C30: for every persisted order, escrow released, status completed and
\* deliveryConfirmed true hold together or not at all, and an order whose
\* escrow is held is pending and not confirmed.
C30_MarkersAgree ==
  \A o \in OrderSet :
    /\ orders[o].escrow = "released" <=> orders[o].status = "completed"
    /\ orders[o].status = "completed" <=> orders[o].deliveryConfirmed
    /\ orders[o].escrow = "held"
         => (~orders[o].deliveryConfirmed /\ orders[o].status = "pending")

\* C30 witness: one order is released, completed and confirmed while a
\* second one is held, pending and not confirmed, the confirm call of the
\* first being in its release loop
C30_Witness ==
  /\ Len(orders) = 2
  /\ orders[1].escrow = "released" /\ orders[1].status = "completed"
  /\ orders[1].deliveryConfirmed
  /\ orders[2].escrow = "held" /\ orders[2].status = "pending"
  /\ ~orders[2].deliveryConfirmed
  /\ \E r \in Req : InReleaseLoop(r) /\ req[r].orderId = 1

\* the sum of the amounts of the records of the set S, each counted as many
\* times as the ledger l holds it
RECURSIVE SumAmounts(_, _)
SumAmounts(S, l) ==
  IF S = {} THEN 0
  ELSE LET t == CHOOSE u \in S : TRUE
       IN t.amount * CopiesIn(t, l) + SumAmounts(S \ {t}, l)

\* the sum of the amounts of the ledger records of one type of seller s in
\* currency c
LedgerAmount(s, c, type) ==
  SumAmounts({t \in LedgerOfType(type) : t.sellerId = s /\ t.currency = c},
             ledger)

\* C27: in every state with no request in flight, each seller's
\* pendingBalance in each currency is the sum of the amounts of its
\* escrow_hold records minus the sum of the amounts of its escrow_release
\* records in that currency.
C27_WalletLedgerAgree ==
  (\A r \in Req : Free(r)) =>
    \A s \in Sellers, c \in Currencies :
      wallets[s][c].pendingBalance
        = LedgerAmount(s, c, "escrow_hold")
            - LedgerAmount(s, c, "escrow_release")

\* C28: in every reachable state, for every seller and currency,
\* balance <= totalEarnings.
C28_BalanceWithinEarnings ==
  \A s \in Sellers, c \in Currencies :
    wallets[s][c].balance <= wallets[s][c].totalEarnings

\* C25: when a confirm-delivery call made for a held order fails inside its
\* item loop it answers 500 and processes no later item, and either no
\* release was applied (wallets and ledger are what they were when the call
\* started) or the releases can be completed without crediting a seller
\* twice.  The only operation that completes them is confirm-delivery
\* again, which credits every item of the order, so the second case
\* requires that no wallet has been credited yet.
C25_FailedConfirmRecoverable ==
  [][\A r \in Req :
       (/\ req[r].kind = "confirm"
        /\ req[r].pc \in {"cd_tx", "cd_sfind", "cd_ssave"}
        /\ req[r].orderId \in 1..Len(pre.orders)
        /\ pre.orders[req[r].orderId].escrow = "held"
        /\ req'[r].pc = "done" /\ req'[r].resp # 200)
       => /\ req'[r].resp = 500
          /\ \/ wallets' = pre.wallets /\ ledger' = pre.ledger
             \/ wallets' = pre.wallets]_vars

=============================================================================
